---------------------------- MODULE Spec2Model ----------------------------
(***************************************************************************)
(* Model of load_mcode.py: the four payload transforms, the pipeline that  *)
(* sequences them, and the three-phase batch uploader of main.             *)
(*                                                                         *)
(* JSON values are modelled as tagged records of one uniform shape:        *)
(*   t = "str" : a Python str, s is its text as a sequence of atoms        *)
(*   t = "obj" : a Python dict, kv is its items in insertion order         *)
(*   t = "arr" : a Python list, a is its elements                          *)
(*   t = "err" : an exception that propagated out of the function          *)
(* A text atom stands for a run of characters that the regular expression  *)
(* of the reference normaliser can only treat as a whole.                  *)
(***************************************************************************)
EXTENDS Naturals, Sequences, FiniteSets

VARIABLES
    fn,        \* function-level runs: the function that was called
    arg,       \* function-level runs: the argument it was called with
    ret,       \* function-level runs: what it returned (or the error raised)
    pc,        \* main: position in main
    idx,       \* main: position of the running for loop in its list
    dir,       \* main: the entries of mcode_folder
    hospital_information_payloads,
    practitioner_information_payloads,
    patient_payloads,
    payload,   \* main: the document loaded by the current upload_payload call
    attempted, \* main: files upload_payload was called with, in call order
    outcomes,  \* main: how each of those calls ended, in call order
    posted,    \* main: files for which requests.post was issued, in order
    printed,   \* main: files printed as "Failed: <file>"
    log        \* main: logging.info lines

vars == <<fn, arg, ret, pc, idx, dir, hospital_information_payloads,
          practitioner_information_payloads, patient_payloads, payload,
          attempted, outcomes, posted, printed, log>>

fnVars == <<fn, arg, ret>>

mainVars == <<pc, idx, dir, hospital_information_payloads,
              practitioner_information_payloads, patient_payloads, payload,
              attempted, outcomes, posted, printed, log>>

----------------------------------------------------------------------------
(* Bounds *)

MaxEntries == 3

----------------------------------------------------------------------------
(* JSON values *)

S(s) == [t |-> "str", s |-> s, kv |-> <<>>, a |-> <<>>]

O(kv) == [t |-> "obj", s |-> <<>>, kv |-> kv, a |-> <<>>]

A(a) == [t |-> "arr", s |-> <<>>, kv |-> <<>>, a |-> a]

Err == [t |-> "err", s |-> <<>>, kv |-> <<>>, a |-> <<>>]

KV(k, v) == [k |-> k, v |-> v]

IsErr(v) == v.t = "err"

\* key in d
Has(d, k) == d.t = "obj" /\ \E i \in 1..Len(d.kv) : d.kv[i].k = k

\* d[key]; Err stands for the KeyError
Get(d, k) ==
    IF Has(d, k)
    THEN d.kv[CHOOSE i \in 1..Len(d.kv) : d.kv[i].k = k].v
    ELSE Err

\* d[key] = v : an existing key keeps its position, a new key is appended
Put(d, k, v) ==
    IF Has(d, k)
    THEN O([i \in 1..Len(d.kv) |-> IF d.kv[i].k = k THEN KV(k, v) ELSE d.kv[i]])
    ELSE O(Append(d.kv, KV(k, v)))


----------------------------------------------------------------------------
(* Text atoms *)

DQ == "\""

BS == "\\"

\* the atoms every character of which matches \w
WordAtoms == {"reference", "Patient", "Practitioner", "abc", "x", "id"}

\* the atoms that match UUID_REGEX as a whole
UuidAtoms == {"550e8400-e29b-41d4-a716-446655440000",
              "6ba7b810-9dad-11d1-80b4-00c04fd430c8"}

Str(x) == S(<<x>>)

----------------------------------------------------------------------------
(* purge_duplicates *)

\* DictSet as dict.setdefault: the first entry of a key is kept
DictSet_KeepFirst(items, key, each) ==
    IF \E i \in 1..Len(items) : items[i].k = key
    THEN items
    ELSE Append(items, KV(key, each))

\* dict[key] = each, on a dict kept as its items in insertion order
DictSet(items, key, each) ==
    IF \E i \in 1..Len(items) : items[i].k = key
    THEN [i \in 1..Len(items) |->
             IF items[i].k = key THEN KV(key, each) ELSE items[i]]
    ELSE Append(items, KV(key, each))

\* {each['fullUrl']: each for each in entry}, built left to right
RECURSIVE FullUrlDict(_, _, _)
FullUrlDict(entry, i, items) ==
    IF i > Len(entry) THEN items
    ELSE FullUrlDict(entry, i + 1,
                     DictSet(items, Get(entry[i], <<"fullUrl">>), entry[i]))

DictValues(items) == [i \in 1..Len(items) |-> items[i].v]

purge_duplicates(d) ==
    IF ~Has(d, <<"entry">>) THEN Err
    ELSE LET entry == Get(d, <<"entry">>).a
         IN  IF \E i \in 1..Len(entry) : ~Has(entry[i], <<"fullUrl">>)
             THEN Err
             ELSE Put(d, <<"entry">>,
                      A(DictValues(FullUrlDict(entry, 1, <<>>))))

----------------------------------------------------------------------------
(* remove_provenance *)

\* list.remove(e): drops the first element equal to e
ListRemove(l, e) ==
    IF \E i \in 1..Len(l) : l[i] = e
    THEN LET j == CHOOSE i \in 1..Len(l) :
                      l[i] = e /\ \A h \in 1..(i - 1) : l[h] # e
         IN  [i \in 1..(Len(l) - 1) |-> IF i < j THEN l[i] ELSE l[i + 1]]
    ELSE l

IsProvenance(e) ==
    Get(Get(e, <<"resource">>), <<"resourceType">>) = Str("Provenance")

\* RemoveLoop as "for e in entry": the loop walks the list it shrinks
RECURSIVE RemoveLoop_NoCopy(_, _, _)
RemoveLoop_NoCopy(copy, i, entry) ==
    IF i > Len(entry) THEN entry
    ELSE RemoveLoop_NoCopy(copy, i + 1,
                           IF IsProvenance(entry[i])
                           THEN ListRemove(entry, entry[i])
                           ELSE entry)

\* for e in list(entry): the loop walks the copy while entry shrinks
RECURSIVE RemoveLoop(_, _, _)
RemoveLoop(copy, i, entry) ==
    IF i > Len(copy) THEN entry
    ELSE RemoveLoop(copy, i + 1,
                    IF IsProvenance(copy[i])
                    THEN ListRemove(entry, copy[i])
                    ELSE entry)

remove_provenance(p) ==
    IF ~Has(p, <<"entry">>) THEN Err
    ELSE LET entry == Get(p, <<"entry">>).a
         IN  IF \E i \in 1..Len(entry) :
                    \/ ~Has(entry[i], <<"resource">>)
                    \/ ~Has(Get(entry[i], <<"resource">>), <<"resourceType">>)
             THEN Err
             ELSE Put(p, <<"entry">>, A(RemoveLoop(entry, 1, entry)))

----------------------------------------------------------------------------
(* add_if_none_exist_clause *)

SyntheaSystem == Str("https://github.com/synthetichealth/synthea")

HasIdentifier(resource) ==
    /\ Has(resource, <<"identifier">>)
    /\ Len(Get(resource, <<"identifier">>).a) > 0

\* the else branch: the identifier list synthesized from resource['id']
SynthIdentifier(resource) ==
    A(<<O(<<KV(<<"system">>, SyntheaSystem),
            KV(<<"value">>, Get(resource, <<"id">>))>>)>>)

\* WithIdentifier without the test: the identifier is always synthesized
WithIdentifier_Always(resource) ==
    Put(resource, <<"identifier">>, SynthIdentifier(resource))

\* the resource as the loop body leaves it
WithIdentifier(resource) ==
    IF HasIdentifier(resource) THEN resource
    ELSE Put(resource, <<"identifier">>, SynthIdentifier(resource))

\* f"{resource_type}?identifier={system}|{value}"
QueryTerm(resource) ==
    LET identifier == Get(resource, <<"identifier">>).a[1]
    IN  S(Get(resource, <<"resourceType">>).s \o <<"?identifier=">>
          \o Get(identifier, <<"system">>).s \o <<"|">>
          \o Get(identifier, <<"value">>).s)

\* the KeyErrors the loop body can raise on entry e
ClauseRaises(e) ==
    \/ ~Has(e, <<"resource">>)
    \/ ~Has(e, <<"request">>)
    \/ ~Has(Get(e, <<"resource">>), <<"resourceType">>)
    \/ /\ ~HasIdentifier(Get(e, <<"resource">>))
       /\ ~Has(Get(e, <<"resource">>), <<"id">>)
    \/ /\ HasIdentifier(Get(e, <<"resource">>))
       /\ LET identifier == Get(Get(e, <<"resource">>), <<"identifier">>).a[1]
          IN  ~Has(identifier, <<"system">>) \/ ~Has(identifier, <<"value">>)

\* one iteration of the loop: entry[i] with request and resource assigned
ClauseEntry(e) ==
    LET resource == WithIdentifier(Get(e, <<"resource">>))
        request  == Put(Get(e, <<"request">>), <<"ifNoneExist">>,
                        QueryTerm(resource))
    IN  Put(Put(e, <<"request">>, request), <<"resource">>, resource)

add_if_none_exist_clause(p) ==
    IF ~Has(p, <<"entry">>) THEN Err
    ELSE LET entry == Get(p, <<"entry">>).a
         IN  IF \E i \in 1..Len(entry) : ClauseRaises(entry[i])
             THEN Err
             ELSE Put(p, <<"entry">>,
                      A([i \in 1..Len(entry) |-> ClauseEntry(entry[i])]))

----------------------------------------------------------------------------
(* json.dumps: the document as text, default separators ", " and ": " *)

EscAtom(c) == IF c = DQ \/ c = BS THEN <<BS, c>> ELSE <<c>>

RECURSIVE Esc(_)
Esc(s) == IF s = <<>> THEN <<>> ELSE EscAtom(Head(s)) \o Esc(Tail(s))

DumpStr(s) == <<DQ>> \o Esc(s) \o <<DQ>>

RECURSIVE Dumps(_)
RECURSIVE DumpItems(_, _)
RECURSIVE DumpElems(_, _)
Dumps(v) ==
    CASE v.t = "str" -> DumpStr(v.s)
      [] v.t = "obj" -> <<"{">> \o DumpItems(v.kv, 1) \o <<"}">>
      [] OTHER       -> <<"[">> \o DumpElems(v.a, 1) \o <<"]">>

DumpItems(kv, i) ==
    IF i > Len(kv) THEN <<>>
    ELSE (IF i > 1 THEN <<",", " ">> ELSE <<>>)
         \o DumpStr(kv[i].k) \o <<":", " ">> \o Dumps(kv[i].v)
         \o DumpItems(kv, i + 1)

DumpElems(a, i) ==
    IF i > Len(a) THEN <<>>
    ELSE (IF i > 1 THEN <<",", " ">> ELSE <<>>)
         \o Dumps(a[i]) \o DumpElems(a, i + 1)

----------------------------------------------------------------------------
(* json.loads: text back to a document *)

At(t, i) == IF i >= 1 /\ i <= Len(t) THEN t[i] ELSE "EOF"

RECURSIVE SkipWs(_, _)
SkipWs(t, i) == IF At(t, i) = " " THEN SkipWs(t, i + 1) ELSE i

Parsed(v, i) == [ok |-> TRUE, v |-> v, i |-> i]

ParseFail == [ok |-> FALSE, v |-> Err, i |-> 0]

\* the characters of a string literal up to its closing quote
RECURSIVE ReadChars(_, _, _)
ReadChars(t, j, acc) ==
    CASE At(t, j) = "EOF" -> ParseFail
      [] At(t, j) = DQ    -> Parsed(S(acc), j + 1)
      [] At(t, j) = BS    ->
            IF At(t, j + 1) \in {DQ, BS}
            THEN ReadChars(t, j + 2, Append(acc, t[j + 1]))
            ELSE ParseFail
      [] OTHER            -> ReadChars(t, j + 1, Append(acc, t[j]))

ParseString(t, i) ==
    IF At(t, i) = DQ THEN ReadChars(t, i + 1, <<>>) ELSE ParseFail

RECURSIVE ParseValue(_, _)
RECURSIVE ParseMembers(_, _, _)
RECURSIVE ParseElems(_, _, _)
ParseValue(t, i0) ==
    LET i == SkipWs(t, i0)
    IN  CASE At(t, i) = DQ  -> ParseString(t, i)
          [] At(t, i) = "{" ->
                IF At(t, SkipWs(t, i + 1)) = "}"
                THEN Parsed(O(<<>>), SkipWs(t, i + 1) + 1)
                ELSE ParseMembers(t, SkipWs(t, i + 1), O(<<>>))
          [] At(t, i) = "[" ->
                IF At(t, SkipWs(t, i + 1)) = "]"
                THEN Parsed(A(<<>>), SkipWs(t, i + 1) + 1)
                ELSE ParseElems(t, i + 1, <<>>)
          [] OTHER          -> ParseFail

\* "key": value pairs up to the closing brace
ParseMembers(t, i, obj) ==
    LET key == ParseString(t, i)
    IN  IF ~key.ok \/ At(t, SkipWs(t, key.i)) # ":" THEN ParseFail
        ELSE LET val == ParseValue(t, SkipWs(t, key.i) + 1)
             IN  IF ~val.ok THEN ParseFail
                 ELSE LET j    == SkipWs(t, val.i)
                          obj2 == Put(obj, key.v.s, val.v)
                      IN  CASE At(t, j) = "," ->
                                   ParseMembers(t, SkipWs(t, j + 1), obj2)
                            [] At(t, j) = "}" -> Parsed(obj2, j + 1)
                            [] OTHER          -> ParseFail

\* values up to the closing bracket
ParseElems(t, i, acc) ==
    LET val == ParseValue(t, i)
    IN  IF ~val.ok THEN ParseFail
        ELSE LET j == SkipWs(t, val.i)
             IN  CASE At(t, j) = "," -> ParseElems(t, j + 1, Append(acc, val.v))
                   [] At(t, j) = "]" -> Parsed(A(Append(acc, val.v)), j + 1)
                   [] OTHER          -> ParseFail

Loads(t) ==
    LET r == ParseValue(t, 1)
    IN  IF r.ok /\ SkipWs(t, r.i) = Len(t) + 1 THEN r.v ELSE Err

----------------------------------------------------------------------------
(* standardize_references *)

\* UUID_REGEX: the atom is a canonical lowercase 8-4-4-4-12 UUID
UUID_REGEX(c) == c \in UuidAtoms

\* \w+ at position i: the number of atoms of the longest run of word atoms
RECURSIVE WordRun(_, _)
WordRun(t, i) == IF At(t, i) \in WordAtoms THEN 1 + WordRun(t, i + 1) ELSE 0

\* REFERENCE_REGEX tried at position i: the match, or ok = FALSE.
\* g1 is the position of group 1, w its length without the slash.
REFERENCE_REGEX(t, i) ==
    LET c  == SkipWs(t, i + 3)
        q  == SkipWs(t, c + 1)
        w  == WordRun(t, q + 1)
    IN  IF /\ At(t, i) = DQ
           /\ At(t, i + 1) = "reference"
           /\ At(t, i + 2) = DQ
           /\ At(t, c) = ":"
           /\ At(t, q) = DQ
           /\ w >= 1
           /\ At(t, q + 1 + w) = "/"
           /\ UUID_REGEX(At(t, q + 2 + w))
           /\ At(t, q + 3 + w) = DQ
        THEN [ok |-> TRUE, len |-> q + 4 + w - i, g1 |-> q + 1, w |-> w]
        ELSE [ok |-> FALSE, len |-> 0, g1 |-> 0, w |-> 0]

IsPrefixAt(t, i, old) ==
    /\ i + Len(old) - 1 <= Len(t)
    /\ \A k \in 1..Len(old) : t[i + k - 1] = old[k]

\* str.replace(old, new): every non-overlapping occurrence, left to right
RECURSIVE StrReplace(_, _, _, _)
StrReplace(t, i, old, new) ==
    IF i > Len(t) THEN <<>>
    ELSE IF IsPrefixAt(t, i, old)
         THEN new \o StrReplace(t, i + Len(old), old, new)
         ELSE <<t[i]>> \o StrReplace(t, i + 1, old, new)

\* obj.group(0).replace(obj.group(1), "urn:uuid:")
urnreplc(t, i, m) ==
    StrReplace(SubSeq(t, i, i + m.len - 1), 1,
               SubSeq(t, m.g1, m.g1 + m.w), <<"urn:uuid:">>)

\* the leftmost position from i on where REFERENCE_REGEX matches, 0 if none
NextMatch(t, i) ==
    IF \E j \in i..Len(t) : REFERENCE_REGEX(t, j).ok
    THEN CHOOSE j \in i..Len(t) :
             /\ REFERENCE_REGEX(t, j).ok
             /\ \A h \in i..(j - 1) : ~REFERENCE_REGEX(t, h).ok
    ELSE 0

\* re.sub(REFERENCE_REGEX, urnreplc, dumped_p): leftmost matches, no overlap
RECURSIVE ReSub(_, _)
ReSub(t, i) ==
    LET j == NextMatch(t, i)
    IN  IF j = 0 THEN SubSeq(t, i, Len(t))
        ELSE LET m == REFERENCE_REGEX(t, j)
             IN  SubSeq(t, i, j - 1) \o urnreplc(t, j, m)
                 \o ReSub(t, j + m.len)

standardize_references(p) == Loads(ReSub(Dumps(p), 1))

----------------------------------------------------------------------------
(* preprocess_payload *)

\* preprocess_payload without the standardize_references call
preprocess_payload_NoStandardize(pl) ==
    LET p1 == purge_duplicates(pl)
        p2 == IF IsErr(p1) THEN Err ELSE remove_provenance(p1)
    IN  IF IsErr(p2) THEN Err ELSE add_if_none_exist_clause(p2)

\* preprocess_payload with remove_provenance called before purge_duplicates
preprocess_payload_StripFirst(pl) ==
    LET p1 == remove_provenance(pl)
        p2 == IF IsErr(p1) THEN Err ELSE purge_duplicates(p1)
        p3 == IF IsErr(p2) THEN Err ELSE standardize_references(p2)
    IN  IF IsErr(p3) THEN Err ELSE add_if_none_exist_clause(p3)

preprocess_payload(pl) ==
    LET p1 == purge_duplicates(pl)
        p2 == IF IsErr(p1) THEN Err ELSE remove_provenance(p1)
        p3 == IF IsErr(p2) THEN Err ELSE standardize_references(p2)
    IN  IF IsErr(p3) THEN Err ELSE add_if_none_exist_clause(p3)

----------------------------------------------------------------------------
(* Inputs of the function-level runs *)

U1 == "550e8400-e29b-41d4-a716-446655440000"

U2 == "6ba7b810-9dad-11d1-80b4-00c04fd430c8"

Ref(s) == O(<<KV(<<"reference">>, S(s))>>)

Request == O(<<KV(<<"method">>, Str("POST")), KV(<<"url">>, Str("Patient"))>>)

Identifier(system, value) ==
    O(<<KV(<<"system">>, Str(system)), KV(<<"value">>, Str(value))>>)

\* no identifier; a relative reference nested in a list
PatientNoIdentifier ==
    O(<<KV(<<"resourceType">>, Str("Patient")),
        KV(<<"id">>, Str(U1)),
        KV(<<"generalPractitioner">>, A(<<Ref(<<"Practitioner", "/", U2>>)>>))>>)

\* two identifiers; a reference that is not UUID-shaped
ObservationIdentified ==
    O(<<KV(<<"resourceType">>, Str("Observation")),
        KV(<<"id">>, Str("obs-1")),
        KV(<<"identifier">>, A(<<Identifier("urn:ietf:rfc:3986", "first"),
                                 Identifier("urn:other", "second")>>)),
        KV(<<"subject">>, Ref(<<"Patient", "/", "abc">>))>>)

\* an empty identifier list; a reference already in urn:uuid: form and a
\* relative one
PatientEmptyIdentifier ==
    O(<<KV(<<"resourceType">>, Str("Patient")),
        KV(<<"id">>, Str(U2)),
        KV(<<"identifier">>, A(<<>>)),
        KV(<<"link">>, Ref(<<"urn:uuid:", U1>>)),
        KV(<<"managingOrganization">>, Ref(<<"Practitioner", "/", U1>>))>>)

ProvenanceResource ==
    O(<<KV(<<"resourceType">>, Str("Provenance")),
        KV(<<"id">>, Str("prov-1")),
        KV(<<"target">>, A(<<Ref(<<"Patient", "/", U1>>)>>))>>)

Entry(url, resource, request) ==
    O(<<KV(<<"fullUrl">>, S(<<"urn:uuid:", url>>)),
        KV(<<"resource">>, resource),
        KV(<<"request">>, request)>>)

EntryNoRequest(url, resource) ==
    O(<<KV(<<"fullUrl">>, S(<<"urn:uuid:", url>>)),
        KV(<<"resource">>, resource)>>)

EntryNoResource(url) ==
    O(<<KV(<<"fullUrl">>, S(<<"urn:uuid:", url>>)), KV(<<"request">>, Request)>>)

EntryPool ==
    { Entry(U1, PatientNoIdentifier, Request),
      Entry(U1, ProvenanceResource, Request),
      Entry(U2, ObservationIdentified, Request),
      Entry(U2, PatientEmptyIdentifier, Request),
      EntryNoRequest(U2, ProvenanceResource),
      EntryNoRequest(U1, PatientNoIdentifier),
      EntryNoResource(U1) }

Bundle(entry) ==
    O(<<KV(<<"resourceType">>, Str("Bundle")), KV(<<"entry">>, A(entry))>>)

BundleNoEntry == O(<<KV(<<"resourceType">>, Str("Bundle"))>>)

Bundles ==
    {BundleNoEntry} \cup
    UNION { {Bundle(e) : e \in [1..n -> EntryPool]} : n \in 0..MaxEntries }

\* keys and values of the documents given to the reference normaliser
DocKeys ==
    { <<"reference">>, <<"x", "reference">>, <<"reference", "x">>,
      <<"x", DQ, "reference">>, <<"display">> }

DocValues ==
    { <<"Patient", "/", U1>>, <<"x", "Patient", "/", U2>>,
      <<"Patient", "/", "abc">>, <<"urn:uuid:", U1>>, <<U1>>,
      <<"Patient", "/", "550E8400-E29B-41D4-A716-446655440000">>,
      <<"Patient", "/", "Patient", "/", U1>>,
      <<"http://example.org/fhir/", "Patient", "/", U1>>,
      <<DQ, "reference", DQ, ":", " ", DQ, "Patient", "/", U1, DQ>>,
      <<"Patient", BS, "/", U1>> }

\* the pair k: s at nesting depth 0, 1 (in an object) and 2 (in a list)
Wrap(depth, k, s) ==
    CASE depth = 0 -> O(<<KV(<<"id">>, Str("d")), KV(k, S(s))>>)
      [] depth = 1 -> O(<<KV(<<"subject">>, O(<<KV(k, S(s))>>)),
                          KV(<<"text">>, S(s))>>)
      [] OTHER     -> O(<<KV(<<"list">>,
                             A(<<S(s), O(<<KV(k, S(s)),
                                           KV(<<"next">>,
                                              Ref(<<"Patient", "/", U2>>))>>)>>))>>)

Docs == { Wrap(d, k, s) : d \in {0, 1, 2}, k \in DocKeys, s \in DocValues }

None == [t |-> "none", s |-> <<>>, kv |-> <<>>, a |-> <<>>]

----------------------------------------------------------------------------
(* Function-level runs: one call of one function on one input *)

InitMainIdle ==
    /\ pc = "idle"
    /\ idx = 0
    /\ dir = {}
    /\ hospital_information_payloads = <<>>
    /\ practitioner_information_payloads = <<>>
    /\ patient_payloads = <<>>
    /\ payload = None
    /\ attempted = <<>>
    /\ outcomes = <<>>
    /\ posted = <<>>
    /\ printed = <<>>
    /\ log = <<>>

InitFn ==
    /\ fn = "none"
    /\ arg \in Bundles \cup Docs
    /\ ret = None
    /\ InitMainIdle

Call_purge_duplicates ==
    /\ fn = "none"
    /\ fn' = "purge_duplicates"
    /\ ret' = purge_duplicates(arg)
    /\ UNCHANGED <<arg, mainVars>>

Call_remove_provenance ==
    /\ fn = "none"
    /\ fn' = "remove_provenance"
    /\ ret' = remove_provenance(arg)
    /\ UNCHANGED <<arg, mainVars>>

Call_standardize_references ==
    /\ fn = "none"
    /\ fn' = "standardize_references"
    /\ ret' = standardize_references(arg)
    /\ UNCHANGED <<arg, mainVars>>

Call_add_if_none_exist_clause ==
    /\ fn = "none"
    /\ fn' = "add_if_none_exist_clause"
    /\ ret' = add_if_none_exist_clause(arg)
    /\ UNCHANGED <<arg, mainVars>>

Call_preprocess_payload ==
    /\ fn = "none"
    /\ fn' = "preprocess_payload"
    /\ ret' = preprocess_payload(arg)
    /\ UNCHANGED <<arg, mainVars>>

NextFn ==
    \/ Call_purge_duplicates
    \/ Call_remove_provenance
    \/ Call_standardize_references
    \/ Call_add_if_none_exist_clause
    \/ Call_preprocess_payload

SpecFn == InitFn /\ [][NextFn]_vars

----------------------------------------------------------------------------
(* main: the directory and its listing *)

\* a file name is <<stem, rest>>; the atoms in character order
Alphabet ==
    <<"1", "2", "Aaron", "Zoe", "hospital", "hospitalInformation",
      "practitionerInformation">>

AtomRank(c) == CHOOSE k \in 1..Len(Alphabet) : Alphabet[k] = c

\* Path.__lt__ on two entries of one folder
PathLess(x, y) ==
    \/ AtomRank(x[1]) < AtomRank(y[1])
    \/ x[1] = y[1] /\ AtomRank(x[2]) < AtomRank(y[2])

FileNames ==
    { <<"hospitalInformation", "1">>, <<"hospitalInformation", "2">>,
      <<"practitionerInformation", "1">>, <<"practitionerInformation", "2">>,
      <<"Zoe", "1">>, <<"Aaron", "2">>, <<"hospital", "1">> }

\* mcode_folder.glob(prefix + "*") as a set
Glob(d, prefix) == { f \in d : f[1] = prefix }

\* the orders in which a listing may yield the files of F
Listings(F) ==
    { l \in [1..Cardinality(F) -> F] :
          \A a, b \in 1..Cardinality(F) : a # b => l[a] # l[b] }

\* sorted(list(F))
RECURSIVE Sorted(_)
Sorted(F) ==
    IF F = {} THEN <<>>
    ELSE LET m == CHOOSE x \in F : \A y \in F \ {x} : PathLess(x, y)
         IN  <<m>> \o Sorted(F \ {m})

Range(l) == { l[k] : k \in 1..Len(l) }

\* PatientList without the set difference
PatientList_All(d, hosp, prac) == Sorted(d)

\* set(all) - (set(hospital) | set(practitioner)), sorted
PatientList(d, hosp, prac) == Sorted(d \ (Range(hosp) \cup Range(prac)))

\* the documents a payload file may hold
FileContents ==
    { Bundle(<<Entry(U1, PatientNoIdentifier, Request),
               Entry(U2, ObservationIdentified, Request)>>),
      BundleNoEntry,
      Bundle(<<EntryNoRequest(U1, PatientNoIdentifier)>>),
      Bundle(<<EntryNoRequest(U2, ProvenanceResource),
               Entry(U1, PatientNoIdentifier, Request)>>),
      Bundle(<<EntryNoResource(U1)>>),
      Bundle(<<EntryNoResource(U1),
               Entry(U1, PatientEmptyIdentifier, Request)>>),
      Bundle(<<Entry(U1, O(<<KV(<<"id">>, Str("x"))>>), Request)>>) }

\* what requests.post followed by raise_for_status does: returns, or raises
\* an HTTPError or a ConnectionError (both RequestException)
Responses == {"ok", "HTTPError", "ConnectionError"}

\* line 102 on each document a file may hold: preprocess_payload(payload)
Preprocessed == [doc \in FileContents |-> preprocess_payload(doc)]

\* whether upload_payload on a file holding doc gets as far as requests.post
Posts(doc) == ~IsErr(Preprocessed[doc])

\* upload_payload on a file holding doc, the server answering resp: how the
\* call ends
upload_payload(doc, resp) ==
    IF ~Posts(doc) THEN "KeyError"
    ELSE IF resp = "ok" THEN "returned" ELSE "RequestException"

----------------------------------------------------------------------------
(* main *)

Init ==
    /\ fn = "none"
    /\ arg = None
    /\ ret = None
    /\ pc = "start"
    /\ idx = 0
    /\ dir \in SUBSET FileNames
    /\ hospital_information_payloads = <<>>
    /\ practitioner_information_payloads = <<>>
    /\ patient_payloads = <<>>
    /\ payload = None
    /\ attempted = <<>>
    /\ outcomes = <<>>
    /\ posted = <<>>
    /\ printed = <<>>
    /\ log = <<>>

\* lines 109-125: the three lists are fixed here
Scan ==
    /\ pc = "start"
    /\ log' = Append(log, "Uploading")
    /\ \E hosp \in Listings(Glob(dir, "hospitalInformation")) :
       \E prac \in Listings(Glob(dir, "practitionerInformation")) :
          /\ hospital_information_payloads' = hosp
          /\ practitioner_information_payloads' = prac
          /\ patient_payloads' = PatientList(dir, hosp, prac)
    /\ pc' = "hospital"
    /\ idx' = 1
    /\ UNCHANGED <<fnVars, dir, payload, attempted, outcomes, posted, printed>>

\* UploadStrict with the call wrapped in try/except RequestException
UploadStrict_Caught(list) ==
    /\ idx <= Len(list)
    /\ \E doc \in FileContents, resp \in Responses :
          /\ payload' = doc
          /\ attempted' = Append(attempted, list[idx])
          /\ outcomes' = Append(outcomes, upload_payload(doc, resp))
          /\ posted' = IF Posts(doc) THEN Append(posted, list[idx]) ELSE posted
          /\ IF upload_payload(doc, resp) = "KeyError"
             THEN idx' = idx /\ pc' = "crashed"
             ELSE idx' = idx + 1 /\ pc' = pc
    /\ UNCHANGED <<fnVars, dir, hospital_information_payloads,
                   practitioner_information_payloads, patient_payloads,
                   printed, log>>

\* one iteration of a loop whose body is a bare upload_payload call
UploadStrict(list) ==
    /\ idx <= Len(list)
    /\ \E doc \in FileContents, resp \in Responses :
          /\ payload' = doc
          /\ attempted' = Append(attempted, list[idx])
          /\ outcomes' = Append(outcomes, upload_payload(doc, resp))
          /\ posted' = IF Posts(doc) THEN Append(posted, list[idx]) ELSE posted
          /\ IF upload_payload(doc, resp) = "returned"
             THEN idx' = idx + 1 /\ pc' = pc
             ELSE idx' = idx /\ pc' = "crashed"
    /\ UNCHANGED <<fnVars, dir, hospital_information_payloads,
                   practitioner_information_payloads, patient_payloads,
                   printed, log>>

\* lines 127-130
UploadHospital ==
    /\ pc = "hospital"
    /\ UploadStrict(hospital_information_payloads)

HospitalEnd ==
    /\ pc = "hospital"
    /\ idx > Len(hospital_information_payloads)
    /\ pc' = "practitioner"
    /\ idx' = 1
    /\ UNCHANGED <<fnVars, dir, hospital_information_payloads,
                   practitioner_information_payloads, patient_payloads,
                   payload, attempted, outcomes, posted, printed, log>>

\* lines 132-135
UploadPractitioner ==
    /\ pc = "practitioner"
    /\ UploadStrict(practitioner_information_payloads)

PractitionerEnd ==
    /\ pc = "practitioner"
    /\ idx > Len(practitioner_information_payloads)
    /\ pc' = "patient"
    /\ idx' = 1
    /\ UNCHANGED <<fnVars, dir, hospital_information_payloads,
                   practitioner_information_payloads, patient_payloads,
                   payload, attempted, outcomes, posted, printed, log>>

\* UploadPatient without the try/except
UploadPatient_NoTry ==
    /\ pc = "patient"
    /\ UploadStrict(patient_payloads)

\* UploadPatient with a bare except: every exception is caught and printed
UploadPatient_CatchAll ==
    /\ pc = "patient"
    /\ idx <= Len(patient_payloads)
    /\ \E doc \in FileContents, resp \in Responses :
          /\ payload' = doc
          /\ attempted' = Append(attempted, patient_payloads[idx])
          /\ outcomes' = Append(outcomes, upload_payload(doc, resp))
          /\ posted' = IF Posts(doc)
                       THEN Append(posted, patient_payloads[idx])
                       ELSE posted
          /\ idx' = idx + 1
          /\ pc' = pc
          /\ printed' = IF upload_payload(doc, resp) = "returned"
                        THEN printed
                        ELSE Append(printed, patient_payloads[idx])
    /\ UNCHANGED <<fnVars, dir, hospital_information_payloads,
                   practitioner_information_payloads, patient_payloads, log>>

\* lines 137-143: the call is inside try/except RequestException
UploadPatient ==
    /\ pc = "patient"
    /\ idx <= Len(patient_payloads)
    /\ \E doc \in FileContents, resp \in Responses :
          /\ payload' = doc
          /\ attempted' = Append(attempted, patient_payloads[idx])
          /\ outcomes' = Append(outcomes, upload_payload(doc, resp))
          /\ posted' = IF Posts(doc)
                       THEN Append(posted, patient_payloads[idx])
                       ELSE posted
          /\ CASE upload_payload(doc, resp) = "returned" ->
                     idx' = idx + 1 /\ pc' = pc /\ printed' = printed
               [] upload_payload(doc, resp) = "RequestException" ->
                     /\ idx' = idx + 1
                     /\ pc' = pc
                     /\ printed' = Append(printed, patient_payloads[idx])
               [] OTHER ->
                     idx' = idx /\ pc' = "crashed" /\ printed' = printed
    /\ UNCHANGED <<fnVars, dir, hospital_information_payloads,
                   practitioner_information_payloads, patient_payloads, log>>

\* line 145
Done ==
    /\ pc = "patient"
    /\ idx > Len(patient_payloads)
    /\ log' = Append(log, "Done.")
    /\ pc' = "done"
    /\ UNCHANGED <<fnVars, idx, dir, hospital_information_payloads,
                   practitioner_information_payloads, patient_payloads,
                   payload, attempted, outcomes, posted, printed>>

Next ==
    \/ Scan
    \/ UploadHospital
    \/ HospitalEnd
    \/ UploadPractitioner
    \/ PractitionerEnd
    \/ UploadPatient
    \/ Done

Spec == Init /\ [][Next]_vars

----------------------------------------------------------------------------
(* Properties of main *)

AllLists ==
    hospital_information_payloads \o practitioner_information_payloads
    \o patient_payloads

StrictFiles ==
    Range(hospital_information_payloads)
    \cup Range(practitioner_information_payloads)

IsPrefix(s, l) == Len(s) <= Len(l) /\ \A k \in 1..Len(s) : s[k] = l[k]

\* the attempts made on patient files, in call order
PatientAttempts ==
    SubSeq(attempted,
           Len(hospital_information_payloads)
           + Len(practitioner_information_payloads) + 1,
           Len(attempted))

\* the attempted files whose upload_payload call ended as out
AttemptsEnding(out) ==
    { attempted[k] : k \in { h \in 1..Len(attempted) : outcomes[h] = out } }

\* C1: an upload failure (RequestException) in the hospital or practitioner
\* phase ends the run at once: the failed attempt stays the last attempt, no
\* patient file is attempted and "Done." is never logged.
C1_StrictPhaseFailureAborts ==
    \A k \in 1..Len(attempted) :
        (outcomes[k] = "RequestException" /\ attempted[k] \in StrictFiles) =>
            /\ k = Len(attempted)
            /\ pc = "crashed"
            /\ Range(attempted) \cap Range(patient_payloads) = {}
            /\ printed = <<>>
            /\ "Done." \notin Range(log)

\* a hospital upload failed with a later hospital file, a practitioner file
\* and a patient file left unattempted
C1_Witness ==
    /\ pc = "crashed"
    /\ Len(attempted) = 1
    /\ outcomes[1] = "RequestException"
    /\ Len(hospital_information_payloads) = 2
    /\ Len(practitioner_information_payloads) >= 1
    /\ Len(patient_payloads) >= 1

\* C2: in the patient phase an upload failure is caught and printed as
\* "Failed: <file>" and the loop goes on: the patient files are attempted once
\* each in sorted order, the run never stops on an upload failure, and it ends
\* with "Done." whatever subset of the uploads failed.
C2_PatientFailuresAreSkipped ==
    /\ pc \in {"patient", "done", "crashed"} =>
          /\ IsPrefix(PatientAttempts, patient_payloads)
          /\ \A j, k \in 1..Len(patient_payloads) :
                 j < k => PathLess(patient_payloads[j], patient_payloads[k])
    /\ \A k \in 1..Len(attempted) :
          (outcomes[k] = "RequestException" /\ attempted[k] \notin StrictFiles)
              => /\ attempted[k] \in Range(printed)
                 /\ pc = "crashed" => outcomes[Len(outcomes)] = "KeyError"
    /\ Range(printed) = AttemptsEnding("RequestException") \ StrictFiles
    /\ IsPrefix(printed, SelectSeq(patient_payloads,
                                   LAMBDA f : f \in Range(printed)))
    /\ pc = "patient" => ENABLED (UploadPatient \/ Done)
    /\ pc = "done" =>
          /\ PatientAttempts = patient_payloads
          /\ log = <<"Uploading", "Done.">>

\* three patient files, every upload failed, and the run ended with "Done."
C2_Witness ==
    /\ pc = "done"
    /\ Len(patient_payloads) = 3
    /\ printed = patient_payloads
    /\ \A k \in 1..Len(outcomes) : outcomes[k] = "RequestException"

\* C3: the three lists are fixed before the first upload, are pairwise
\* disjoint and cover the directory, the patient list being the directory
\* minus the two prefix-matched sets; the files are attempted list after
\* list, and a run without failures posts every directory entry exactly once.
C3_ThreeSequentialPhases ==
    /\ pc = "start" => attempted = <<>> /\ posted = <<>>
    /\ pc # "start" =>
          /\ Range(hospital_information_payloads)
                 = { f \in dir : f[1] = "hospitalInformation" }
          /\ Range(practitioner_information_payloads)
                 = { f \in dir : f[1] = "practitionerInformation" }
          /\ Range(patient_payloads)
                 = dir \ { f \in dir : f[1] \in {"hospitalInformation",
                                                 "practitionerInformation"} }
          /\ Range(AllLists) = dir
          /\ Len(AllLists) = Cardinality(dir)
          /\ IsPrefix(attempted, AllLists)
          /\ IsPrefix(posted, attempted)
    /\ pc = "done" =>
          /\ attempted = AllLists
          /\ (\A k \in 1..Len(outcomes) : outcomes[k] = "returned") =>
                 /\ posted = attempted
                 /\ \A f \in dir :
                        Cardinality({k \in 1..Len(posted) : posted[k] = f}) = 1

\* a run without failures over a directory holding files of all three kinds
C3_Witness ==
    /\ pc = "done"
    /\ dir = FileNames
    /\ \A k \in 1..Len(outcomes) : outcomes[k] = "returned"
    /\ Len(posted) = Cardinality(FileNames)

Entries(b) == Get(b, <<"entry">>).a

FullUrl(e) == Get(e, <<"fullUrl">>)

\* entry i is the last entry of b with its fullUrl
IsLastOfUrl(b, i) ==
    \A h \in (i + 1)..Len(Entries(b)) :
        FullUrl(Entries(b)[h]) # FullUrl(Entries(b)[i])

LacksResource(e) ==
    \/ ~Has(e, <<"resource">>)
    \/ ~Has(Get(e, <<"resource">>), <<"resourceType">>)

\* a document lacking entry, or with an entry lacking resource, resourceType
\* or request
LacksField(doc) ==
    \/ ~Has(doc, <<"entry">>)
    \/ \E i \in 1..Len(Entries(doc)) :
          LacksResource(Entries(doc)[i]) \/ ~Has(Entries(doc)[i], <<"request">>)

\* the missing field belongs to the document itself or to an entry that is
\* still present when the field is read
LacksFieldThatIsRead(doc) ==
    \/ ~Has(doc, <<"entry">>)
    \/ \E i \in 1..Len(Entries(doc)) :
          /\ IsLastOfUrl(doc, i)
          /\ \/ LacksResource(Entries(doc)[i])
             \/ /\ ~Has(Entries(doc)[i], <<"request">>)
                /\ ~IsProvenance(Entries(doc)[i])

LastAttemptAborted ==
    /\ pc = "crashed"
    /\ outcomes[Len(outcomes)] = "KeyError"
    /\ attempted[Len(attempted)] \notin Range(posted)
    /\ attempted[Len(attempted)] \notin Range(printed)
    /\ "Done." \notin Range(log)

\* C4 as stated: every loaded document lacking entry, or with an entry
\* lacking resource, resourceType or request, stops the run without a POST.
C4_AnyMissingFieldAborts ==
    (attempted # <<>> /\ LacksField(payload)) => LastAttemptAborted

\* C4 amended: a loaded document lacking entry, or with an entry that is the
\* last of its fullUrl and lacks resource or resourceType, or is the last of
\* its fullUrl, is not a Provenance entry and lacks request, stops the run in
\* every phase, the patient phase included, with no POST for that file, no
\* "Failed" line and the remaining files unattempted.
C4_ReadMissingFieldAborts ==
    (attempted # <<>> /\ LacksFieldThatIsRead(payload)) => LastAttemptAborted

\* a malformed patient file stopped the run after an earlier patient upload
\* had failed and been skipped, with a patient file left unattempted
C4_Witness ==
    /\ pc = "crashed"
    /\ LacksFieldThatIsRead(payload)
    /\ Len(patient_payloads) = 3
    /\ PatientAttempts = SubSeq(patient_payloads, 1, 2)
    /\ printed = <<patient_payloads[1]>>

----------------------------------------------------------------------------
(* Properties of the transforms *)

Resource(e) == Get(e, <<"resource">>)

ResourceType(e) == Get(Resource(e), <<"resourceType">>)

NotProvenance(e) == ResourceType(e) # Str("Provenance")

\* the least index of l whose entry has fullUrl u
FirstIndex(l, u) ==
    CHOOSE i \in 1..Len(l) :
        FullUrl(l[i]) = u /\ \A h \in 1..(i - 1) : FullUrl(l[h]) # u

\* every entry has fullUrl, resource with resourceType and id, and request
WellFormedBundle(b) ==
    /\ Has(b, <<"entry">>)
    /\ \A i \in 1..Len(Entries(b)) :
          /\ Has(Entries(b)[i], <<"fullUrl">>)
          /\ Has(Entries(b)[i], <<"request">>)
          /\ Has(Entries(b)[i], <<"resource">>)
          /\ Has(Resource(Entries(b)[i]), <<"resourceType">>)
          /\ Has(Resource(Entries(b)[i]), <<"id">>)

\* every entry has a resource with a resourceType
TypedBundle(b) ==
    /\ Has(b, <<"entry">>)
    /\ \A i \in 1..Len(Entries(b)) : ~LacksResource(Entries(b)[i])

\* the text has the shape <Word>/<canonical lowercase UUID>
IsRelativeReference(s) ==
    /\ Len(s) >= 3
    /\ s[Len(s)] \in UuidAtoms
    /\ s[Len(s) - 1] = "/"
    /\ \A k \in 1..(Len(s) - 2) : s[k] \in WordAtoms

UrnForm(s) == IF IsRelativeReference(s) THEN <<"urn:uuid:", s[Len(s)]>> ELSE s

\* the string values found under a key named reference, at any depth
RECURSIVE ReferenceValues(_)
ReferenceValues(v) ==
    CASE v.t = "obj" ->
            UNION { (IF v.kv[i].k = <<"reference">> /\ v.kv[i].v.t = "str"
                     THEN {v.kv[i].v.s} ELSE {})
                    \cup ReferenceValues(v.kv[i].v) : i \in 1..Len(v.kv) }
      [] v.t = "arr" -> UNION { ReferenceValues(v.a[i]) : i \in 1..Len(v.a) }
      [] OTHER -> {}

\* the document with only the values under keys named reference rewritten
RECURSIVE OnlyReferencesRewritten(_)
OnlyReferencesRewritten(v) ==
    CASE v.t = "obj" ->
            O([i \in 1..Len(v.kv) |->
                  KV(v.kv[i].k,
                     IF v.kv[i].k = <<"reference">> /\ v.kv[i].v.t = "str"
                     THEN S(UrnForm(v.kv[i].v.s))
                     ELSE OnlyReferencesRewritten(v.kv[i].v))])
      [] v.t = "arr" ->
            A([i \in 1..Len(v.a) |-> OnlyReferencesRewritten(v.a[i])])
      [] OTHER -> v

\* what preprocess_payload establishes on its result: pairwise distinct
\* fullUrls, no Provenance entry, no reference left in <Type>/<uuid> form
\* (each is in urn:uuid: form), a non-empty identifier on every resource and
\* a populated request.ifNoneExist on every entry
PipelineEstablishes ==
    /\ ~IsErr(ret)
    /\ LET in  == Entries(arg)
           out == Entries(ret)
       IN  /\ \A j, k \in 1..Len(out) :
                  j # k => FullUrl(out[j]) # FullUrl(out[k])
           /\ \A j \in 1..Len(out) : NotProvenance(out[j])
           /\ \A s \in ReferenceValues(ret) : ~IsRelativeReference(s)
           /\ \A j \in 1..Len(out) : \E i \in 1..Len(in) :
                  /\ FullUrl(in[i]) = FullUrl(out[j])
                  /\ IsLastOfUrl(arg, i)
                  /\ ReferenceValues(out[j])
                         = { UrnForm(s) : s \in ReferenceValues(in[i]) }
           /\ \A j \in 1..Len(out) :
                  /\ Len(Get(Resource(out[j]), <<"identifier">>).a) > 0
                  /\ Has(Get(out[j], <<"request">>), <<"ifNoneExist">>)
                  /\ Get(Get(out[j], <<"request">>), <<"ifNoneExist">>).s
                         # <<>>

\* the number of result entries with the fullUrl of input entry i
CountInResult(i) ==
    Cardinality({ j \in 1..Len(Entries(ret)) :
                    FullUrl(Entries(ret)[j]) = FullUrl(Entries(arg)[i]) })

\* input entries i < k are non-Provenance entries with one fullUrl
SharedByNonProvenance(i, k) ==
    /\ i < k
    /\ FullUrl(Entries(arg)[i]) = FullUrl(Entries(arg)[k])
    /\ NotProvenance(Entries(arg)[i])
    /\ NotProvenance(Entries(arg)[k])

\* C5 as stated: for every well-formed bundle the result of
\* preprocess_payload satisfies the four postconditions at once, and a
\* fullUrl shared by two non-Provenance entries appears in it exactly once.
C5_SharedFullUrlAlwaysOnce ==
    (fn = "preprocess_payload" /\ WellFormedBundle(arg)) =>
        /\ PipelineEstablishes
        /\ \A i, k \in 1..Len(Entries(arg)) :
               SharedByNonProvenance(i, k) => CountInResult(i) = 1

\* C5 amended: for every well-formed bundle the result of preprocess_payload
\* satisfies the four postconditions at once, and a fullUrl shared by two
\* non-Provenance entries appears in it exactly once when the last entry with
\* that fullUrl is not a Provenance entry, and not at all when it is.
C5_PipelinePostconditions ==
    (fn = "preprocess_payload" /\ WellFormedBundle(arg)) =>
        /\ PipelineEstablishes
        /\ \A i, k \in 1..Len(Entries(arg)) :
               SharedByNonProvenance(i, k) =>
                   \A l \in 1..Len(Entries(arg)) :
                       (/\ FullUrl(Entries(arg)[l]) = FullUrl(Entries(arg)[i])
                        /\ IsLastOfUrl(arg, l))
                       => CountInResult(i)
                              = IF NotProvenance(Entries(arg)[l]) THEN 1 ELSE 0

\* two non-Provenance entries share a fullUrl, a Provenance entry is present
\* and a surviving resource held a relative reference that is now a urn
C5_Witness ==
    /\ fn = "preprocess_payload"
    /\ WellFormedBundle(arg)
    /\ \E i, k \in 1..Len(Entries(arg)) :
          /\ i < k
          /\ FullUrl(Entries(arg)[i]) = FullUrl(Entries(arg)[k])
          /\ NotProvenance(Entries(arg)[i])
          /\ NotProvenance(Entries(arg)[k])
          /\ \E s \in ReferenceValues(Entries(arg)[k]) :
                /\ IsRelativeReference(s)
                /\ UrnForm(s) \in ReferenceValues(ret)
    /\ \E i \in 1..Len(Entries(arg)) : ~NotProvenance(Entries(arg)[i])
    /\ Len(Entries(ret)) = 1

\* C6: after purge_duplicates each fullUrl of the input occurs exactly once,
\* the entry kept for it is the last input entry with that fullUrl, no entry
\* is introduced, the kept entries stand in the order of the first occurrence
\* of their fullUrl, and a second application changes nothing.
C6_PurgeKeepsLastPerFullUrl ==
    (fn = "purge_duplicates" /\ Has(arg, <<"entry">>)) =>
        /\ ~IsErr(ret)
        /\ LET in  == Entries(arg)
               out == Entries(ret)
           IN  /\ \A i \in 1..Len(in) :
                      Cardinality({ j \in 1..Len(out) :
                                      FullUrl(out[j]) = FullUrl(in[i]) }) = 1
               /\ \A j \in 1..Len(out) : \E i \in 1..Len(in) :
                      out[j] = in[i] /\ IsLastOfUrl(arg, i)
               /\ \A j, k \in 1..Len(out) :
                      j < k => FirstIndex(in, FullUrl(out[j]))
                                   < FirstIndex(in, FullUrl(out[k]))
        /\ purge_duplicates(ret) = ret

\* a fullUrl occurred twice with different entries around another fullUrl
C6_Witness ==
    /\ fn = "purge_duplicates"
    /\ Has(arg, <<"entry">>)
    /\ Len(Entries(arg)) = 3
    /\ FullUrl(Entries(arg)[1]) = FullUrl(Entries(arg)[3])
    /\ Entries(arg)[1] # Entries(arg)[3]
    /\ Entries(ret) = <<Entries(arg)[3], Entries(arg)[2]>>

\* C7: after remove_provenance no entry is a Provenance entry, and the entries
\* left are exactly the non-Provenance entries of the input, each as often as
\* in the input and in their original relative order, also when the input
\* holds equal entries.
C7_RemoveProvenanceIsFilter ==
    (fn = "remove_provenance" /\ TypedBundle(arg)) =>
        /\ ~IsErr(ret)
        /\ \A j \in 1..Len(Entries(ret)) : NotProvenance(Entries(ret)[j])
        /\ Entries(ret) = SelectSeq(Entries(arg), NotProvenance)

\* equal Provenance entries stood on both sides of an entry that is kept
C7_Witness ==
    /\ fn = "remove_provenance"
    /\ TypedBundle(arg)
    /\ Len(Entries(arg)) = 3
    /\ Entries(arg)[1] = Entries(arg)[3]
    /\ ~NotProvenance(Entries(arg)[1])
    /\ Entries(ret) = <<Entries(arg)[2]>>

\* the first identifier of a resource
FirstIdentifier(r) == Get(r, <<"identifier">>).a[1]

\* C8: after add_if_none_exist_clause a resource that had a non-empty
\* identifier list is unmodified, any other resource differs only in
\* identifier, which is exactly [{system: synthea, value: id}]; in both cases
\* request.ifNoneExist is "<resourceType>?identifier=<system>|<value>" of the
\* first identifier, and the number and order of entries is unchanged.
C8_IdentifierAndIfNoneExist ==
    (fn = "add_if_none_exist_clause" /\ WellFormedBundle(arg)) =>
        /\ ~IsErr(ret)
        /\ Len(Entries(ret)) = Len(Entries(arg))
        /\ \A i \in 1..Len(Entries(arg)) :
              LET rin  == Resource(Entries(arg)[i])
                  rout == Resource(Entries(ret)[i])
                  hadId == /\ Has(rin, <<"identifier">>)
                           /\ Get(rin, <<"identifier">>).a # <<>>
              IN  /\ FullUrl(Entries(ret)[i]) = FullUrl(Entries(arg)[i])
                  /\ hadId => rout = rin
                  /\ ~hadId =>
                        /\ Get(rout, <<"identifier">>)
                             = A(<<O(<<KV(<<"system">>, Str(
                                 "https://github.com/synthetichealth/synthea")),
                                       KV(<<"value">>, Get(rin, <<"id">>))>>)>>)
                        /\ \A k \in DOMAIN rin.kv :
                              rin.kv[k].k # <<"identifier">> =>
                                  Get(rout, rin.kv[k].k) = rin.kv[k].v
                  /\ Get(rout, <<"identifier">>).a # <<>>
                  /\ Get(Get(Entries(ret)[i], <<"request">>), <<"ifNoneExist">>)
                       = S(Get(rout, <<"resourceType">>).s
                           \o <<"?identifier=">>
                           \o Get(FirstIdentifier(rout), <<"system">>).s
                           \o <<"|">>
                           \o Get(FirstIdentifier(rout), <<"value">>).s)

\* one resource came with identifiers, one with an empty list, one with none
C8_Witness ==
    /\ fn = "add_if_none_exist_clause"
    /\ WellFormedBundle(arg)
    /\ ~IsErr(ret)
    /\ \E i, j, k \in 1..Len(Entries(arg)) :
          /\ Len(Get(Resource(Entries(arg)[i]), <<"identifier">>).a) = 2
          /\ Has(Resource(Entries(arg)[j]), <<"identifier">>)
          /\ Get(Resource(Entries(arg)[j]), <<"identifier">>).a = <<>>
          /\ ~Has(Resource(Entries(arg)[k]), <<"identifier">>)

\* C9 as stated: standardize_references rewrites the <Word>/<uuid> values
\* under keys named reference, at any depth, and leaves every other value
\* unchanged.
C9_OnlyReferenceKeysRewritten ==
    fn = "standardize_references" => ret = OnlyReferencesRewritten(arg)

\* C10: the entries surviving preprocess_payload are exactly the input
\* entries that are the last of their fullUrl and are not Provenance entries;
\* a fullUrl whose last entry is a Provenance entry has no entry in the
\* result, whatever its earlier entries were.
C10_SurvivorsAreLastNonProvenance ==
    (fn = "preprocess_payload" /\ ~IsErr(ret)) =>
        LET in  == Entries(arg)
            out == Entries(ret)
            survivors == { i \in 1..Len(in) :
                             IsLastOfUrl(arg, i) /\ NotProvenance(in[i]) }
        IN  /\ Len(out) = Cardinality(survivors)
            /\ \A i \in survivors : \E j \in 1..Len(out) :
                   /\ FullUrl(out[j]) = FullUrl(in[i])
                   /\ ResourceType(out[j]) = ResourceType(in[i])
                   /\ Get(Resource(out[j]), <<"id">>)
                          = Get(Resource(in[i]), <<"id">>)
            /\ \A i \in 1..Len(in) :
                   (IsLastOfUrl(arg, i) /\ ~NotProvenance(in[i])) =>
                       \A j \in 1..Len(out) : FullUrl(out[j]) # FullUrl(in[i])

\* a non-Provenance entry was followed by a Provenance entry of the same
\* fullUrl, and the result holds no entry for that fullUrl
C10_Witness ==
    /\ fn = "preprocess_payload"
    /\ ~IsErr(ret)
    /\ Len(Entries(ret)) = 1
    /\ \E i, k \in 1..Len(Entries(arg)) :
          /\ i < k
          /\ FullUrl(Entries(arg)[i]) = FullUrl(Entries(arg)[k])
          /\ NotProvenance(Entries(arg)[i])
          /\ ~NotProvenance(Entries(arg)[k])
          /\ IsLastOfUrl(arg, k)
          /\ \A j \in 1..Len(Entries(ret)) :
                FullUrl(Entries(ret)[j]) # FullUrl(Entries(arg)[i])

============================================================================
